---------------------------- MODULE Spec2Model ----------------------------
(***************************************************************************)
(* Model of tubolyroli/football-transfer-valuation.                        *)
(*                                                                         *)
(*   src/src/qa_check.py  the data-quality script: a table, a list of      *)
(*                        expectations declared on a validator, one        *)
(*                        validate() run, and the printed report.          *)
(*   src/src/app.py       the dashboard script: load and clean the CSV,    *)
(*                        filter, fit and score a ridge model, rank.       *)
(*                                                                         *)
(* A table cell is <<>> when the value is missing (None / NaN) and <<v>>   *)
(* when it holds v.  A text cell that the code takes apart (the age) is    *)
(* the sequence of its characters.                                         *)
(***************************************************************************)
EXTENDS Integers, Sequences, FiniteSets, TLC

VARIABLES
    \* ---- qa_check.py
    qa_df,      \* df: the DataFrame handed to the validator (sequence of rows)
    rules,      \* the expectation statements of the script, in program order
    suite,      \* the validator's expectation suite (declared so far)
    results,    \* results of validator.validate(), or NoResults
    out,        \* the lines printed by section 6
    qa_pc,      \* position of the script
    \* ---- app.py
    csv,            \* rows of data/processed/final_dataset.csv
    df,             \* load_data(): rows with age_clean
    selected_leagues,
    min_minutes,
    df_filtered,
    model,          \* the fitted Ridge: feature vector -> prediction, or NoModel
    scored,         \* df_filtered with predicted_value and difference
    undervalued,
    pc

qa_vars  == <<qa_df, rules, suite, results, out, qa_pc>>
app_vars == <<csv, df, selected_leagues, min_minutes, df_filtered, model,
              scored, undervalued, pc>>
vars     == <<qa_df, rules, suite, results, out, qa_pc,
              csv, df, selected_leagues, min_minutes, df_filtered, model,
              scored, undervalued, pc>>

\* ------------------------------------------------------------------ bounds
\* Longest table drawn for the runs (besides the script's own 5-row table).
MaxRows == 2
\* Longest list of expectations drawn (besides the script's own 5).
MaxRules == 2
\* Longest age text enumerated character by character.
MaxAgeLen == 2

\* ----------------------------------------------------------------- helpers
NULL == <<>>
Val(v) == <<v>>

RECURSIVE SeqsUpTo(_, _)
\* All sequences over S of length at most n.
SeqsUpTo(S, n) ==
    IF n = 0 THEN {<<>>}
    ELSE LET shorter == SeqsUpTo(S, n - 1)
         IN  shorter \cup {Append(s, x) : s \in {t \in shorter : Len(t) = n - 1}, x \in S}

Range(s) == {s[i] : i \in 1..Len(s)}
Injective(s) == \A i, j \in 1..Len(s) : s[i] = s[j] => i = j

(***************************************************************************)
(*                             qa_check.py                                 *)
(***************************************************************************)
Columns == {"player_id", "player_name", "age", "market_value_eur", "league"}

QaRow(id, name, age, mv, league) ==
    [player_id |-> id, player_name |-> name, age |-> age,
     market_value_eur |-> mv, league |-> league]

\* The "dirty" table of the script.
data ==
    << QaRow(Val(101), Val("Szoboszlai Dominik"), Val(24),  Val(75000000),  Val("Premier League")),
       QaRow(Val(102), Val("Phil Foden"),         Val(23),  Val(110000000), Val("Premier League")),
       QaRow(Val(103), Val("Harry Kane"),         Val(30),  Val(90000000),  Val("Bundesliga")),
       QaRow(Val(101), Val("Szoboszlai Dominik"), Val(24),  Val(75000000),  Val("Premier League")),
       QaRow(Val(105), Val("Unknown Player"),     Val(150), Val(-5000),     NULL) >>

\* Rows the other tables are drawn from: the rows of data, and rows with a
\* missing id, age and value, an age below the range and a league outside the set.
QaRowPool ==
    Range(data) \cup
    { QaRow(Val(106), Val("N. N."), NULL,    NULL,         Val("MLS")),
      QaRow(NULL,     NULL,         Val(14), Val(300000001), Val("NB I")) }

Expectation(type, column, lo, hi, set) ==
    [expectation_type |-> type, column |-> column,
     min_value |-> lo, max_value |-> hi, value_set |-> set]

LeagueSet == {"Premier League", "Bundesliga", "La Liga", "Serie A", "Ligue 1", "NB I"}

RuleA  == Expectation("expect_column_values_to_be_unique", "player_id", 0, 0, {})
RuleB  == Expectation("expect_column_values_to_be_between", "age", 15, 45, {})
RuleC1 == Expectation("expect_column_values_to_not_be_null", "market_value_eur", 0, 0, {})
RuleC2 == Expectation("expect_column_values_to_be_between", "market_value_eur", 0, 300000000, {})
RuleD  == Expectation("expect_column_values_to_be_in_set", "league", 0, 0, LeagueSet)

\* The expectation statements of the script, in order.
ScriptRules == <<RuleA, RuleB, RuleC1, RuleC2, RuleD>>

\* Other statements a script of this shape can hold: a null check on age, and
\* checks on a column the table does not have.
RulePool ==
    Range(ScriptRules) \cup
    { Expectation("expect_column_values_to_not_be_null", "age", 0, 0, {}),
      Expectation("expect_column_values_to_not_be_null", "team", 0, 0, {}),
      Expectation("expect_column_values_to_be_unique", "team", 0, 0, {}) }

Column(table, c) == [i \in 1..Len(table) |-> table[i][c]]
\* Positions of the values of a column that are present.
NonNull(col) == {i \in 1..Len(col) : col[i] # NULL}

\* Column-map expectations of the validation library look at the non-null
\* values only; the null check is the one that looks at the nulls.
expect_column_values_to_be_unique(table, rule) ==
    LET col == Column(table, rule.column)
    IN  Cardinality({i \in NonNull(col) : \E j \in NonNull(col) : j # i /\ col[j] = col[i]})

\* Variant of the range expectation: the lower bound is not looked at.
BetweenUpperOnly(table, rule) ==
    LET col == Column(table, rule.column)
    IN  Cardinality({i \in NonNull(col) : col[i][1] > rule.max_value})

expect_column_values_to_be_between(table, rule) ==
    LET col == Column(table, rule.column)
    IN  Cardinality({i \in NonNull(col) :
                        col[i][1] < rule.min_value \/ col[i][1] > rule.max_value})

expect_column_values_to_not_be_null(table, rule) ==
    LET col == Column(table, rule.column)
    IN  Cardinality({i \in 1..Len(col) : col[i] = NULL})

expect_column_values_to_be_in_set(table, rule) ==
    LET col == Column(table, rule.column)
    IN  Cardinality({i \in NonNull(col) : col[i][1] \notin rule.value_set})

unexpected_count(table, rule) ==
    CASE rule.expectation_type = "expect_column_values_to_be_unique" ->
            expect_column_values_to_be_unique(table, rule)
      [] rule.expectation_type = "expect_column_values_to_be_between" ->
            expect_column_values_to_be_between(table, rule)
      [] rule.expectation_type = "expect_column_values_to_not_be_null" ->
            expect_column_values_to_not_be_null(table, rule)
      [] rule.expectation_type = "expect_column_values_to_be_in_set" ->
            expect_column_values_to_be_in_set(table, rule)

\* res["result"] of a result whose evaluation raised holds no unexpected_count.
NoCount == -1

\* One entry of results["results"].  validate() catches what an expectation
\* raises and records it as a failed result without counts.
EvaluateRule(table, rule) ==
    IF rule.column \notin Columns
    THEN [expectation_type |-> rule.expectation_type, column |-> rule.column,
          success |-> FALSE, unexpected_count |-> NoCount]
    ELSE LET n == unexpected_count(table, rule)
         IN  [expectation_type |-> rule.expectation_type, column |-> rule.column,
              success |-> (n = 0), unexpected_count |-> n]

RECURSIVE AnySuccess(_)
\* Variant of AllSuccess: one successful expectation is enough.
AnySuccess(rs) ==
    IF rs = <<>> THEN TRUE
    ELSE IF Tail(rs) = <<>> THEN Head(rs).success
    ELSE Head(rs).success \/ AnySuccess(Tail(rs))

RECURSIVE AllSuccess(_)
AllSuccess(rs) ==
    IF rs = <<>> THEN TRUE ELSE Head(rs).success /\ AllSuccess(Tail(rs))

\* validator.validate(): every expectation of the suite, in suite order.
validate(table, expectations) ==
    LET rs == [i \in 1..Len(expectations) |-> EvaluateRule(table, expectations[i])]
    IN  [success |-> AllSuccess(rs),
         statistics |-> [evaluated_expectations |-> Len(rs),
                         successful_expectations |->
                             Cardinality({i \in 1..Len(rs) : rs[i].success})],
         results |-> rs]

NoResults == [success |-> TRUE, statistics |-> <<>>, results |-> <<>>]

Line(kind) == [line |-> kind, expectation_type |-> "", column |-> "", unexpected_count |-> 0]
FailedLine(res) ==
    [line |-> "FAILED CHECK", expectation_type |-> res.expectation_type,
     column |-> res.column, unexpected_count |-> 0]
DetailsLine(res) ==
    [line |-> "Details", expectation_type |-> "", column |-> "",
     unexpected_count |-> res.unexpected_count]

RECURSIVE FailedChecksFirstOnly(_)
\* Variant of FailedChecks: the loop ends at the first failed result.
FailedChecksFirstOnly(rs) ==
    IF rs = <<>> THEN <<>>
    ELSE IF ~Head(rs).success
         THEN IF Head(rs).unexpected_count = NoCount
              THEN <<FailedLine(Head(rs))>>
              ELSE <<FailedLine(Head(rs)), DetailsLine(Head(rs))>>
         ELSE FailedChecksFirstOnly(Tail(rs))

RECURSIVE FailedChecks(_)
\* The loop of section 6: two lines for each result that did not succeed.
\* Reading the count of a result that has none raises: the loop ends there.
FailedChecks(rs) ==
    IF rs = <<>> THEN <<>>
    ELSE LET res == Head(rs)
         IN  IF ~res.success
             THEN IF res.unexpected_count = NoCount
                  THEN <<FailedLine(res)>>
                  ELSE <<FailedLine(res), DetailsLine(res)>> \o FailedChecks(Tail(rs))
             ELSE FailedChecks(Tail(rs))

\* Section 6 as a whole.
Output(res) ==
    IF ~res.success
    THEN <<Line("CRITICAL"), Line("Success Score")>> \o FailedChecks(res.results)
    ELSE <<Line("SUCCESS")>>

QaTables == SeqsUpTo(QaRowPool, MaxRows) \cup {data}
RuleLists == {rl \in SeqsUpTo(RulePool, MaxRules) : Injective(rl)} \cup {ScriptRules}

AppIdle ==
    /\ csv = <<>> /\ df = <<>> /\ selected_leagues = {} /\ min_minutes = 0
    /\ df_filtered = <<>> /\ model = <<>> /\ scored = <<>> /\ undervalued = <<>>
    /\ pc = "idle"

InitQA ==
    /\ qa_df \in QaTables
    /\ rules \in RuleLists
    /\ suite = <<>>
    /\ results = NoResults
    /\ out = <<>>
    /\ qa_pc = "declare"
    /\ AppIdle

\* Variant of Expect: what the declaration raises is caught, and the
\* expectation joins the suite all the same.
ExpectCaught ==
    /\ qa_pc = "declare"
    /\ Len(suite) < Len(rules)
    /\ suite' = Append(suite, rules[Len(suite) + 1])
    /\ qa_pc' = "declare"
    /\ UNCHANGED <<qa_df, rules, results, out>>
    /\ UNCHANGED app_vars

\* One validator.expect_...(column=...) statement.  The validator evaluates
\* the expectation as it is declared (interactive evaluation, exceptions not
\* caught): a column the table lacks raises and ends the script; otherwise
\* the expectation joins the suite.
Expect ==
    /\ qa_pc = "declare"
    /\ Len(suite) < Len(rules)
    /\ LET rule == rules[Len(suite) + 1]
       IN  IF rule.column \in Columns
           THEN /\ suite' = Append(suite, rule)
                /\ qa_pc' = "declare"
           ELSE /\ suite' = suite
                /\ qa_pc' = "crashed"
    /\ UNCHANGED <<qa_df, rules, results, out>>
    /\ UNCHANGED app_vars

\* results = validator.validate()
Validate ==
    /\ qa_pc = "declare"
    /\ Len(suite) = Len(rules)
    /\ results' = validate(qa_df, suite)
    /\ qa_pc' = "report"
    /\ UNCHANGED <<qa_df, rules, suite, out>>
    /\ UNCHANGED app_vars

\* Section 6: the printed report.
Report ==
    /\ qa_pc = "report"
    /\ out' = Output(results)
    /\ qa_pc' = IF \E i \in 1..Len(results.results) :
                      results.results[i].unexpected_count = NoCount
                THEN "crashed" ELSE "done"
    /\ UNCHANGED <<qa_df, rules, suite, results>>
    /\ UNCHANGED app_vars

NextQA == Expect \/ Validate \/ Report

SpecQA == InitQA /\ [][NextQA]_vars


Spec == SpecQA

(***************************************************************************)
(*                                app.py                                   *)
(***************************************************************************)
CsvRow(name, age, league, minutes, goals, value) ==
    [player_name |-> name, age |-> age, team |-> "T", league |-> league,
     Playing_Time_Min |-> minutes, goals |-> goals, assists |-> Val(0),
     xg |-> Val(0), Progression_PrgC |-> Val(0), value_eur |-> value]

Digits == {"0", "1", "2", "3", "4", "5", "6", "7", "8", "9"}
DigitVal(ch) ==
    CASE ch = "0" -> 0 [] ch = "1" -> 1 [] ch = "2" -> 2 [] ch = "3" -> 3
      [] ch = "4" -> 4 [] ch = "5" -> 5 [] ch = "6" -> 6 [] ch = "7" -> 7
      [] ch = "8" -> 8 [] ch = "9" -> 9

Age24_180 == Val(<<"2", "4", "-", "1", "8", "0">>)
Age0_5    == Val(<<"0", "-", "5">>)
Age24     == Val(<<"2", "4">>)

\* Rows of the tables the dashboard runs are drawn from: two players with the
\* same statistics and value, a second league, a row with no league and zero
\* minutes, rows with missing minutes and a missing statistic, and an age
\* that is no number.
AppRowPool ==
    { CsvRow("A", Age24_180,   Val("L1"), Val(600),  Val(1), Val(5)),
      CsvRow("B", Age24_180,   Val("L1"), Val(600),  Val(1), Val(5)),
      CsvRow("C", Age0_5,      Val("L2"), Val(3000), Val(2), Val(7)),
      CsvRow("D", Age24,       NULL,      Val(0),    Val(1), Val(5)),
      CsvRow("E", Age24_180,   Val("L2"), NULL,      Val(2), Val(7)),
      CsvRow("F", Age0_5,      Val("L1"), Val(600),  NULL,   Val(7)),
      CsvRow("H", Val(<<"x">>), Val("L1"), Val(600), Val(1), Val(5)) }

\* Characters the enumerated age texts are made of: a digit, the separator,
\* and a letter.
AgeAlphabet == {"2", "-", "x"}
AgeCells ==
    {Val(t) : t \in SeqsUpTo(AgeAlphabet, MaxAgeLen)} \cup {Age24_180, Age0_5, Age24, NULL}
AgeRowPool == {CsvRow("A", a, Val("L1"), Val(600), Val(1), Val(5)) : a \in AgeCells}

\* Values the fitted model predicts with.
PredPool == {5, 7}
\* Positions of the "Minimum Minutes Played" slider tried (its range is 0..3000,
\* its default 500).
MinChoices == {0, 500, 3000}
TopK == 10

AllDigits(t) == \A i \in 1..Len(t) : t[i] \in Digits

\* pd.read_csv reads a cell as a number when its text is an integer literal.
IsNumberText(t) ==
    /\ t # <<>>
    /\ \/ AllDigits(t)
       \/ (t[1] = "-" /\ Len(t) > 1 /\ AllDigits(Tail(t)))

\* dtype of a column as pd.read_csv infers it: numeric when every cell that
\* is present is a number (an empty cell is NaN), text otherwise; a column of
\* no rows is text.
IsTextColumn(col) ==
    \/ Len(col) = 0
    \/ \E i \in 1..Len(col) : col[i] # NULL /\ ~IsNumberText(col[i][1])

RECURSIVE split_last(_)
\* Variant of split_first: the text after the last separator.
split_last(t) ==
    IF t = <<>> THEN <<>>
    ELSE IF t[Len(t)] = "-" THEN <<>>
    ELSE split_last(SubSeq(t, 1, Len(t) - 1)) \o <<t[Len(t)]>>

RECURSIVE split_first(_)
\* .str.split('-').str[0]: the text before the first separator.
split_first(t) ==
    IF t = <<>> \/ Head(t) = "-" THEN <<>>
    ELSE <<Head(t)>> \o split_first(Tail(t))

\* int(text) succeeds on a non-empty run of digits (no other character of
\* the texts drawn here is accepted by int).
IsIntLiteral(t) == t # <<>> /\ AllDigits(t)

RECURSIVE astype_int(_, _)
\* .astype(int) on one text: digits folded from the left.
astype_int(t, acc) ==
    IF t = <<>> THEN acc ELSE astype_int(Tail(t), acc * 10 + DigitVal(Head(t)))

\* Whether the "Clean Age" statement goes through on the column.
CleanAgeOk(col) ==
    /\ IsTextColumn(col)
    /\ \A i \in 1..Len(col) : col[i] # NULL /\ IsIntLiteral(split_first(col[i][1]))

age_clean(cell) == astype_int(split_first(cell[1]), 0)

\* load_data() on a table it accepts: the rows with their RangeIndex label
\* and the new age_clean column.
load_data(table) ==
    [i \in 1..Len(table) |->
        [index |-> i - 1, player_name |-> table[i].player_name, age |-> table[i].age,
         team |-> table[i].team, league |-> table[i].league,
         Playing_Time_Min |-> table[i].Playing_Time_Min, goals |-> table[i].goals,
         assists |-> table[i].assists, xg |-> table[i].xg,
         Progression_PrgC |-> table[i].Progression_PrgC,
         value_eur |-> table[i].value_eur, age_clean |-> age_clean(table[i].age)]]

\* df['league'].unique(): the leagues observed, NaN among them when a row
\* has none.
unique_leagues(table) == {table[i].league : i \in 1..Len(table)}

\* Variant of isin: a missing value matches nothing.
isin_no_nan(cell, values) == cell # NULL /\ cell \in values

\* Series.isin for one cell: NaN is matched by a NaN among the values.
isin(cell, values) == cell \in values

\* NaN >= n is False.
minutes_at_least(cell, n) == cell # NULL /\ cell[1] >= n

filter(table, leagues, minutes) ==
    SelectSeq(table, LAMBDA r : isin(r.league, leagues)
                                /\ minutes_at_least(r.Playing_Time_Min, minutes))

features == <<"age_clean", "goals", "assists", "xg", "Progression_PrgC">>
target == "value_eur"

\* One row of X.
X(r) == <<Val(r.age_clean), r.goals, r.assists, r.xg, r.Progression_PrgC>>
HasNaN(r) == (\E k \in 1..Len(features) : X(r)[k] = NULL) \/ r[target] = NULL

NoModel == <<>>

InitApp ==
    /\ csv \in SeqsUpTo(AppRowPool, MaxRows)
    /\ df = <<>> /\ selected_leagues = {} /\ min_minutes = 0
    /\ df_filtered = <<>> /\ model = NoModel /\ scored = <<>> /\ undervalued = <<>>
    /\ pc = "load"
    /\ qa_df = <<>> /\ rules = <<>> /\ suite = <<>> /\ results = NoResults
    /\ out = <<>> /\ qa_pc = "idle"

InitLoad ==
    /\ csv \in SeqsUpTo(AgeRowPool, MaxRows)
    /\ df = <<>> /\ selected_leagues = {} /\ min_minutes = 0
    /\ df_filtered = <<>> /\ model = NoModel /\ scored = <<>> /\ undervalued = <<>>
    /\ pc = "load"
    /\ qa_df = <<>> /\ rules = <<>> /\ suite = <<>> /\ results = NoResults
    /\ out = <<>> /\ qa_pc = "idle"

\* df = load_data(): read the file and clean the age; what the cleaning
\* raises ends the script.
Load ==
    /\ pc = "load"
    /\ IF CleanAgeOk(Column(csv, "age"))
       THEN df' = load_data(csv) /\ pc' = "filter"
       ELSE df' = df /\ pc' = "load_error"
    /\ UNCHANGED <<csv, selected_leagues, min_minutes, df_filtered, model, scored, undervalued>>
    /\ UNCHANGED qa_vars

\* Section 2: the sidebar widgets and the filtered frame.
Filter ==
    /\ pc = "filter"
    /\ \E sel \in SUBSET unique_leagues(df), m \in MinChoices :
          /\ selected_leagues' = sel
          /\ min_minutes' = m
          /\ df_filtered' = filter(df, sel, m)
    /\ pc' = "fit"
    /\ UNCHANGED <<csv, df, model, scored, undervalued>>
    /\ UNCHANGED qa_vars

FeatureRows(table) == {X(table[i]) : i \in 1..Len(table)}

\* Variant of Fit: a frame of no rows is accepted.
FitNoMinSamples ==
    /\ pc = "fit"
    /\ IF \E i \in 1..Len(df_filtered) : HasNaN(df_filtered[i])
       THEN model' = model /\ pc' = "fit_error"
       ELSE /\ model' \in [FeatureRows(df_filtered) -> PredPool]
            /\ pc' = "predict"
    /\ UNCHANGED <<csv, df, selected_leagues, min_minutes, df_filtered, scored, undervalued>>
    /\ UNCHANGED qa_vars

\* model.fit(X, y): the estimator refuses a frame of no rows and a frame
\* holding a NaN; otherwise it yields some linear model, which maps equal
\* feature rows to equal predictions.
Fit ==
    /\ pc = "fit"
    /\ IF Len(df_filtered) = 0 \/ \E i \in 1..Len(df_filtered) : HasNaN(df_filtered[i])
       THEN model' = model /\ pc' = "fit_error"
       ELSE /\ model' \in [FeatureRows(df_filtered) -> PredPool]
            /\ pc' = "predict"
    /\ UNCHANGED <<csv, df, selected_leagues, min_minutes, df_filtered, scored, undervalued>>
    /\ UNCHANGED qa_vars

Score(r) ==
    LET p == model[X(r)]
    IN  [index |-> r.index, player_name |-> r.player_name, value_eur |-> r.value_eur[1],
         predicted_value |-> p, difference |-> p - r.value_eur[1]]

\* predicted_value and difference, one per row, in row order.
Predict ==
    /\ pc = "predict"
    /\ scored' = [i \in 1..Len(df_filtered) |-> Score(df_filtered[i])]
    /\ pc' = "rank"
    /\ UNCHANGED <<csv, df, selected_leagues, min_minutes, df_filtered, model, undervalued>>
    /\ UNCHANGED qa_vars

RowOrders(n) == {f \in [1..n -> 1..n] : \A i, j \in 1..n : f[i] = f[j] => i = j}

\* sort_values(by='difference', ascending=False) with the default kind
\* ('quicksort'), which is not a stable sort: every descending order of the
\* rows is an outcome, rows of equal difference in any order.
sort_values(table) ==
    { [i \in 1..Len(table) |-> table[f[i]]] : f \in
        {g \in RowOrders(Len(table)) :
            \A i \in 1..(Len(table) - 1) : table[g[i]].difference >= table[g[i + 1]].difference} }

head(table, n) == SubSeq(table, 1, IF Len(table) < n THEN Len(table) ELSE n)

\* Section 6: the "Top 10 Undervalued Players" table.
Rank ==
    /\ pc = "rank"
    /\ \E sorted \in sort_values(scored) : undervalued' = head(sorted, TopK)
    /\ pc' = "done"
    /\ UNCHANGED <<csv, df, selected_leagues, min_minutes, df_filtered, model, scored>>
    /\ UNCHANGED qa_vars

\* A widget is moved: the script runs again from the top, load_data() served
\* from its cache.
Rerun ==
    /\ pc \in {"done", "fit_error"}
    /\ pc' = "filter"
    /\ df_filtered' = <<>> /\ model' = NoModel /\ scored' = <<>> /\ undervalued' = <<>>
    /\ UNCHANGED <<csv, df, selected_leagues, min_minutes>>
    /\ UNCHANGED qa_vars

NextApp == Load \/ Filter \/ Fit \/ Predict \/ Rank \/ Rerun

SpecApp == InitApp /\ [][NextApp]_vars
SpecLoad == InitLoad /\ [][NextApp]_vars

(***************************************************************************)
(*                      Properties of qa_check.py                          *)
(***************************************************************************)
Validated == qa_pc \in {"report", "done"}
Res(i) == results.results[i]
FailIdx == {i \in 1..Len(results.results) : ~Res(i).success}
\* Position of failing result i among the failing results.
FailRank(i) == Cardinality({j \in FailIdx : j <= i})
HasType(i, t) == Res(i).expectation_type = t
OnColumn(i, c) == Res(i).column = c

\* C1: on the script's 5-row table and its 5 expectations the report fails
\* overall, uniqueness of player_id counts 2, the age range counts 1, the
\* market_value_eur range counts 1, and the league membership check counts 1
\* (the null league) and fails.
C1_ExampleReport ==
    (qa_df = data /\ rules = ScriptRules /\ qa_pc = "done") =>
        /\ results.success = FALSE
        /\ Len(results.results) = 5
        /\ HasType(1, "expect_column_values_to_be_unique") /\ Res(1).unexpected_count = 2
        /\ OnColumn(2, "age") /\ Res(2).unexpected_count = 1
        /\ OnColumn(4, "market_value_eur") /\ Res(4).unexpected_count = 1
        /\ HasType(5, "expect_column_values_to_be_in_set")
        /\ Res(5).unexpected_count = 1 /\ ~Res(5).success

C3_SuccessIsConjunction ==
    /\ Validated =>
          /\ Len(results.results) = Len(rules)
          /\ results.success = (\A i \in 1..Len(results.results) : Res(i).success)
    /\ qa_pc = "done" =>
          /\ results.success => out = <<Line("SUCCESS")>>
          /\ ~results.success =>
                /\ out[1] = Line("CRITICAL")
                /\ \A k \in 1..Len(out) : out[k] # Line("SUCCESS")

C3_Witness ==
    /\ qa_pc = "done"
    /\ Len(results.results) = 2
    /\ \E i, j \in 1..2 : Res(i).success /\ ~Res(j).success
    /\ out[1] = Line("CRITICAL")

\* Rows of the table whose value in column c is outside [lo, hi].
OutsideRows(c, lo, hi) ==
    {r \in 1..Len(qa_df) : qa_df[r][c] # NULL /\ (qa_df[r][c][1] < lo \/ qa_df[r][c][1] > hi)}
NullRows(c) == {r \in 1..Len(qa_df) : qa_df[r][c] = NULL}
IsRange(i) == suite[i].expectation_type = "expect_column_values_to_be_between"

\* C4 as stated: the count of a range expectation is the number of rows
\* below min, above max, or null.
C4_RangeCountsNulls ==
    Validated =>
        \A i \in 1..Len(suite) : IsRange(i) =>
            Res(i).unexpected_count =
                Cardinality(OutsideRows(suite[i].column, suite[i].min_value, suite[i].max_value)
                            \cup NullRows(suite[i].column))

\* C4 as amended: the count of a range expectation is the number of rows
\* whose value is present and below min or above max; a row with a null in
\* the ranged column is not counted and does not make the expectation fail.
C4_RangeCountsNonNullOutside ==
    Validated =>
        \A i \in 1..Len(suite) : IsRange(i) =>
            LET n == Cardinality(OutsideRows(suite[i].column, suite[i].min_value,
                                             suite[i].max_value))
            IN  /\ Res(i).unexpected_count = n
                /\ Res(i).success = (n = 0)

C4_Witness ==
    /\ Validated
    /\ \E i \in 1..Len(suite) :
          /\ IsRange(i)
          /\ NullRows(suite[i].column) # {}
          /\ OutsideRows(suite[i].column, suite[i].min_value, suite[i].max_value) # {}
          /\ Res(i).unexpected_count = 1

MissingIdx == {i \in 1..Len(rules) : rules[i].column \notin Columns}
FirstMissing == CHOOSE i \in MissingIdx : \A j \in MissingIdx : i <= j
Ended == qa_pc \in {"done", "crashed"}

\* C9 as stated: with an expectation on a column the table lacks the run
\* does not crash; that expectation is reported as failed, the overall flag
\* is false, and every other expectation is evaluated and reported.
C9_MissingColumnReported ==
    (MissingIdx # {} /\ Ended) =>
        /\ qa_pc = "done"
        /\ results.success = FALSE
        /\ Len(results.results) = Len(rules)
        /\ \A i \in MissingIdx : ~Res(i).success

\* C9 as amended: the statement that declares an expectation on a column the
\* table lacks raises and ends the script there: the expectations before it
\* are the only ones declared, validate() is never run, and nothing is printed.
C9_MissingColumnAborts ==
    /\ MissingIdx # {} =>
          /\ qa_pc \in {"declare", "crashed"}
          /\ Len(suite) < FirstMissing
          /\ results = NoResults
          /\ out = <<>>
    /\ (MissingIdx # {} /\ Len(suite) = FirstMissing - 1) =>
          ~(ENABLED Validate)
    /\ qa_pc = "crashed" => (MissingIdx # {} /\ Len(suite) = FirstMissing - 1)

C9_Witness ==
    /\ qa_pc = "crashed"
    /\ Len(rules) = 2
    /\ rules[1].column \notin Columns
    /\ rules[2].column \in Columns
    /\ Len(qa_df) > 0


(***************************************************************************)
(*                         Properties of app.py                            *)
(***************************************************************************)
Loaded == pc \in {"filter", "fit", "fit_error", "predict", "rank", "done"}
Filtered == pc \in {"fit", "fit_error", "predict", "rank", "done"}

HasSeparator(t) == \E i \in 1..Len(t) : t[i] = "-"
\* The text before the first separator (all of it when there is none).
LeadingText(t) ==
    LET seps == {i \in 1..Len(t) : t[i] = "-"}
    IN  IF seps = {} THEN t
        ELSE SubSeq(t, 1, (CHOOSE i \in seps : \A j \in seps : i <= j) - 1)
RECURSIVE Pow10(_)
Pow10(n) == IF n = 0 THEN 1 ELSE 10 * Pow10(n - 1)
RECURSIVE DecimalSum(_, _)
DecimalSum(t, i) ==
    IF i > Len(t) THEN 0 ELSE DigitVal(t[i]) * Pow10(Len(t) - i) + DecimalSum(t, i + 1)
\* The number a run of digits writes.
DecimalValue(t) == DecimalSum(t, 1)
\* A cell pd.read_csv takes for a number.
BareNumber(t) ==
    /\ t # <<>>
    /\ \A k \in 1..Len(t) : t[k] \in Digits \/ (k = 1 /\ t[k] = "-" /\ Len(t) > 1)
NumericAgeColumn ==
    csv # <<>> /\ \A i \in 1..Len(csv) : csv[i].age = NULL \/ BareNumber(csv[i].age[1])
BadAgeCell(c) ==
    \/ c = NULL
    \/ LeadingText(c[1]) = <<>>
    \/ \E k \in 1..Len(LeadingText(c[1])) : LeadingText(c[1])[k] \notin Digits

\* C5 as stated: "24-180" gives 24 and "0-5" gives 0, and a table holding an
\* age text with no separator ends in a load error.
C5_NoSeparatorRaises ==
    /\ Loaded =>
          \A i \in 1..Len(csv) :
              /\ csv[i].age = Age24_180 => df[i].age_clean = 24
              /\ csv[i].age = Age0_5 => df[i].age_clean = 0
    /\ (pc # "load" /\ \E i \in 1..Len(csv) :
                          csv[i].age # NULL /\ ~HasSeparator(csv[i].age[1]))
          => pc = "load_error"

\* C5 as amended: "24-180" gives 24 and "0-5" gives 0, every age is reduced
\* to the number written before its first separator, and an age text with no
\* separator is not refused for lacking one: in a column read as text a run
\* of digits is taken as that number.  The load ends in an error exactly when
\* a cell is missing, or the text before the first separator is empty or
\* holds something that is no digit, or every cell is a bare number (the
\* column is then read as numbers and has no text to split).
C5_AgeNormalization ==
    /\ Loaded =>
          /\ Len(df) = Len(csv)
          /\ \A i \in 1..Len(csv) :
                /\ csv[i].age = Age24_180 => df[i].age_clean = 24
                /\ csv[i].age = Age0_5 => df[i].age_clean = 0
                /\ df[i].age_clean = DecimalValue(LeadingText(csv[i].age[1]))
                /\ ~HasSeparator(csv[i].age[1]) =>
                      df[i].age_clean = DecimalValue(csv[i].age[1])
    /\ pc # "load" =>
          (pc = "load_error" <=>
              (NumericAgeColumn \/ \E i \in 1..Len(csv) : BadAgeCell(csv[i].age)))

C5_Witness ==
    /\ Loaded
    /\ \E i, j \in 1..Len(csv) :
          /\ csv[i].age = Age24_180 /\ df[i].age_clean = 24
          /\ csv[j].age = Val(<<"2", "2">>) /\ df[j].age_clean = 22

FullSelection ==
    /\ Filtered
    /\ selected_leagues = {df[i].league : i \in 1..Len(df)}
    /\ min_minutes = 0

\* C6 as stated: with every observed league selected and a threshold of 0 the
\* Working Subset is the loaded table, row for row.
C6_FullFilterIsIdentity == FullSelection => df_filtered = df

\* C6 as amended: with every observed league selected (the missing league
\* among them) and a threshold of 0 the Working Subset holds, in table order,
\* exactly the rows whose minutes-played value is present and at least 0: a
\* row with a missing league is kept, a row with missing minutes is dropped.
C6_FullFilterKeepsRowsWithMinutes ==
    FullSelection =>
        /\ \A i \in 1..Len(df) :
              (df[i].Playing_Time_Min # NULL /\ df[i].Playing_Time_Min[1] >= 0)
                  <=> (\E k \in 1..Len(df_filtered) : df_filtered[k] = df[i])
        /\ \A k, l \in 1..Len(df_filtered) :
              k < l => df_filtered[k].index < df_filtered[l].index
        /\ (\A i \in 1..Len(df) : df[i].Playing_Time_Min # NULL
                                   /\ df[i].Playing_Time_Min[1] >= 0)
              => df_filtered = df

C6_Witness ==
    /\ FullSelection
    /\ Len(df) = 2 /\ Len(df_filtered) = 1
    /\ df_filtered[1].league = NULL
    /\ \E i \in 1..Len(df) : df[i].Playing_Time_Min = NULL

Min(a, b) == IF a < b THEN a ELSE b

\* C7: the undervalued table has min(K, number of scored rows) rows, is in
\* descending order of difference, holds the rows a stable sort would put
\* first, and rows of equal difference stand in their Working Subset order.
C7_StableTopK ==
    pc = "done" =>
        /\ Len(undervalued) = Min(TopK, Len(scored))
        /\ \A i, j \in 1..Len(undervalued) :
              i < j =>
                  /\ undervalued[i].difference >= undervalued[j].difference
                  /\ undervalued[i].difference = undervalued[j].difference
                        => undervalued[i].index < undervalued[j].index

\* C8: an empty league selection gives an empty Working Subset, and on an
\* empty Working Subset the fit raises: no model, no predictions and no
\* ranking come out of it.
C8_EmptySubsetRaises ==
    /\ (Filtered /\ selected_leagues = {}) => df_filtered = <<>>
    /\ (Filtered /\ df_filtered = <<>>) =>
          /\ pc \in {"fit", "fit_error"}
          /\ model = NoModel
          /\ scored = <<>>
          /\ undervalued = <<>>

C8_Witness ==
    /\ pc = "fit_error"
    /\ selected_leagues = {}
    /\ Len(df) = 2
    /\ \A i \in 1..Len(df) : ~HasNaN(df[i])
    /\ df_filtered = <<>>

=============================================================================
